---- MODULE Spec2Model ----
(***************************************************************************)
(* External-data enrichment of the retail dashboard:                       *)
(*   - helpers_knmi.py: the KNMI gridded-forecast resolver                  *)
(*     (fetch_knmi_48h_summary), its file selection (_find_candidate_file)  *)
(*     and the decoder (_try_parse_grib_or_netcdf_to_timeseries);           *)
(*   - pages/storemanager.py: the provider clients (fetch_weather,          *)
(*     fetch_cbs_confidence, fetch_econ_news, fetch_holidays) and the page  *)
(*     code that merges their results into ai_context.                      *)
(* Four specifications share the module:                                    *)
(*   Spec        the page building ai_context (storemanager.py 176-185)     *)
(*   SpecKnmi    one invocation of fetch_knmi_48h_summary                   *)
(*   SpecFiles   _find_candidate_file applied to bounded listings           *)
(*   SpecDecoder the decoder applied to bounded grids                       *)
(***************************************************************************)
EXTENDS Integers, Sequences, FiniteSets, TLC

VARIABLES
    \* ---- pages/storemanager.py, module level ----
    pc,             \* position of the page script
    cfg,            \* the secrets read at lines 22-26 and the store postcode
    weather,        \* line 176
    cci,            \* line 177
    news,           \* line 178
    hol,            \* line 179
    ai_context,     \* lines 181-185
    calls,          \* the signal functions the page has called, in order
    requests,       \* HTTP requests issued by the page's provider clients
    raised,         \* an exception escaped to the page
    failed,         \* the signals whose source was unconfigured or failed
    \* ---- helpers_knmi.fetch_knmi_48h_summary, one invocation ----
    kpc,            \* position inside the function
    secret,         \* where KNMI_API_KEY comes from (st.secrets / os.environ)
    cand,           \* index of the DATASET_CANDIDATES entry being scanned
    dataset,        \* local `dataset`
    version,        \* local `version`
    instances,      \* local `instances`
    instance_id,    \* local `instance_id`
    files,          \* local `files`
    f,              \* local `f`
    url,            \* local `url`
    summary,        \* the value returned
    knmi_requests,  \* HTTP requests issued by the invocation, in order
    knmi_raised,    \* an exception escaped from the function
    \* ---- _find_candidate_file on its own ----
    spc,            \* "call" before, "done" after the call
    listing,        \* the argument `files`
    chosen,         \* the value returned (or Raise)
    \* ---- _try_parse_grib_or_netcdf_to_timeseries on its own ----
    dpc,            \* "call" before, "done" after the call
    grid,           \* what the payload decodes to
    out,            \* the value returned
    \* ---- pages/storemanager.fetch_holidays on its own ----
    hpc,            \* "call" before, "done" after the call
    ics_lines,      \* local `lines`: the calendar document, split in lines
    holidays        \* the value returned

aggVars  == <<pc, cfg, weather, cci, news, hol, ai_context, calls, requests,
              raised, failed>>
knmiVars == <<kpc, secret, cand, dataset, version, instances, instance_id,
              files, f, url, summary, knmi_requests, knmi_raised>>
selVars  == <<spc, listing, chosen>>
decVars  == <<dpc, grid, out>>
holVars  == <<hpc, ics_lines, holidays>>
vars     == <<aggVars, knmiVars, selVars, decVars, holVars>>

-----------------------------------------------------------------------------
(* Bounds of the model.                                                    *)
MaxFiles   == 3   \* longest listing given to _find_candidate_file
MaxRuns    == 2   \* longest run listing a provider response carries
MaxListing == 2   \* longest file listing a provider response carries
MaxSteps   == 2   \* longest time window of a decoded grid
MaxLines   == 3   \* longest calendar document, in lines
MaxTitles  == 4   \* most <title> elements in a news document
MaxFc      == 2   \* longest enumerated forecast list (one longer list is added)
MaxEventLines == 5 \* longest calendar document given to fetch_holidays alone

-----------------------------------------------------------------------------
(* Python values.  Every value is a record tagged with its Python type, so *)
(* that None, numbers, strings, lists and dicts can meet in one field.     *)
(* A str is a sequence of one-character strings.                           *)
PyNone     == [t |-> "None"]
PyBool(b)  == [t |-> "bool", b |-> b]
PyInt(n)   == [t |-> "int", n |-> n]
PyFloat(x) == [t |-> "float", x |-> x]
PyStr(s)   == [t |-> "str", s |-> s]
PyList(l)  == [t |-> "list", l |-> l]
PyDict(d)  == [t |-> "dict", d |-> d]
EmptyDict  == PyDict(<<>>)
\* an exception propagating out of an expression
Raise      == [t |-> "raise"]

\* dict.get(key, default)
Get(o, key, default) == IF key \in DOMAIN o.d THEN o.d[key] ELSE default

\* Python truthiness of a value
Truthy(v) ==
    CASE v.t = "None"  -> FALSE
      [] v.t = "bool"  -> v.b
      [] v.t = "int"   -> v.n # 0
      [] v.t = "float" -> v.x # 0
      [] v.t = "str"   -> v.s # <<>>
      [] v.t = "list"  -> v.l # <<>>
      [] v.t = "dict"  -> DOMAIN v.d # {}
      [] OTHER         -> TRUE

\* a or b
Or(a, b) == IF Truthy(a) THEN a ELSE b

\* all sequences over S of length at most n
SeqsUpTo(S, n) == UNION {[1..k -> S] : k \in 0..n}

-----------------------------------------------------------------------------
(* str.lower() and str.endswith() on character sequences.                  *)
LowerChar(c) ==
    CASE c = "B" -> "b" [] c = "C" -> "c" [] c = "G" -> "g" [] c = "I" -> "i"
      [] c = "N" -> "n" [] c = "R" -> "r" [] OTHER -> c

Lower(s) == [i \in 1..Len(s) |-> LowerChar(s[i])]

EndsWith(s, suffix) ==
    /\ Len(s) >= Len(suffix)
    /\ SubSeq(s, Len(s) - Len(suffix) + 1, Len(s)) = suffix

DotGrib2 == <<".", "g", "r", "i", "b", "2">>
DotGrb2  == <<".", "g", "r", "b", "2">>
DotGrb   == <<".", "g", "r", "b">>
DotNc    == <<".", "n", "c">>

-----------------------------------------------------------------------------
(* _find_candidate_file (helpers_knmi.py 106-125).                         *)

\* f.get("filename","").lower(): AttributeError when f has no .get (it is
\* not a dict) or when the filename is not a str
LoweredName(e) ==
    IF e.t # "dict" THEN Raise
    ELSE LET nm == Get(e, "filename", PyStr(<<>>))
         IN  IF nm.t # "str" THEN Raise ELSE PyStr(Lower(nm.s))

IsGribName(name) ==
    EndsWith(name, DotGrib2) \/ EndsWith(name, DotGrb2) \/ EndsWith(name, DotGrb)

IsNcName(name) == EndsWith(name, DotNc)

NotFound == [t |-> "notfound"]

\* for f in files: ... if name.endswith(".grib2") or ...: return f
RECURSIVE GribLoop(_, _)
GribLoop(fs, i) ==
    IF i > Len(fs) THEN NotFound
    ELSE LET name == LoweredName(fs[i])
         IN  IF name = Raise THEN Raise
             ELSE IF IsGribName(name.s) THEN fs[i]
             ELSE GribLoop(fs, i + 1)

\* for f in files: ... if name.endswith(".nc"): return f
RECURSIVE NcLoop(_, _)
NcLoop(fs, i) ==
    IF i > Len(fs) THEN NotFound
    ELSE LET name == LoweredName(fs[i])
         IN  IF name = Raise THEN Raise
             ELSE IF IsNcName(name.s) THEN fs[i]
             ELSE NcLoop(fs, i + 1)

\* a plausible slip: the NetCDF loop runs before the GRIB loop
FindCandidateFileNcFirst(fs) ==
    IF fs = <<>> THEN PyNone
    ELSE LET n == NcLoop(fs, 1)
         IN  IF n # NotFound THEN n
             ELSE LET g == GribLoop(fs, 1)
                  IN  IF g # NotFound THEN g ELSE fs[1]

FindCandidateFile(fs) ==
    IF fs = <<>> THEN PyNone
    ELSE LET g == GribLoop(fs, 1)
         IN  IF g # NotFound THEN g
             ELSE LET n == NcLoop(fs, 1)
                  IN  IF n # NotFound THEN n ELSE fs[1]

-----------------------------------------------------------------------------
(* File names and listing elements used as inputs.                         *)
Name_a_grib2 == <<"a", ".", "g", "r", "i", "b", "2">>
Name_B_GRB2  == <<"B", ".", "G", "R", "B", "2">>
Name_c_grb   == <<"c", ".", "g", "r", "b">>
Name_d_nc    == <<"d", ".", "n", "c">>
Name_E_NC    == <<"E", ".", "N", "C">>
Name_f_txt   == <<"f", ".", "t", "x", "t">>
Name_gnc     == <<"g", "n", "c">>

FileNames == {Name_a_grib2, Name_B_GRB2, Name_c_grb, Name_d_nc, Name_E_NC,
              Name_f_txt, Name_gnc}

File(name) == PyDict([filename |-> PyStr(name)])

\* elements a provider's JSON can carry instead of a file object
FileNoName   == PyDict([size |-> PyInt(1)])
FileBadName  == PyDict([filename |-> PyInt(7)])
FileNotObj   == PyStr(<<"x">>)

FileElems == {File(n) : n \in FileNames}
                 \cup {EmptyDict, FileNoName, FileBadName, FileNotObj}

-----------------------------------------------------------------------------
(* _try_parse_grib_or_netcdf_to_timeseries (helpers_knmi.py 127-289).      *)
(* A grid says what the payload decodes to: which stages of the decoder    *)
(* succeed, which variables _pick discovers, and the values each           *)
(* discovered variable holds at the grid point over the time window.       *)
(* Temperatures are whole degrees, wind speeds whole m/s; precipitation    *)
(* amounts are in thousandths of the data's unit (0.1 is 100, 1.0 is 1000).*)

RECURSIVE SumSeq(_)
SumSeq(a) == IF a = <<>> THEN 0 ELSE Head(a) + SumSeq(Tail(a))

MinSeq(a) == CHOOSE m \in {a[i] : i \in 1..Len(a)} : \A i \in 1..Len(a) : m <= a[i]
MaxSeq(a) == CHOOSE m \in {a[i] : i \in 1..Len(a)} : \A i \in 1..Len(a) : m >= a[i]

\* x ** 0.5 for the squares the model's wind components produce
Sqrt(x) == CHOOSE r \in 0..x : r * r = x

\* round(num / den), Python's round: to nearest, ties to the even integer
RoundHalfEven(num, den) ==
    LET q == num \div den
        r == num % den
    IN  IF 2 * r < den THEN q
        ELSE IF 2 * r > den THEN q + 1
        ELSE IF q % 2 = 0 THEN q ELSE q + 1

\* thresholds of lines 260 and 264, in thousandths
UnitThreshold == 1000
PopThreshold  == 100

\* lines 248-254: temp_min / temp_max
ReduceTemp(o, g) ==
    IF ~g.t2.found THEN o
    ELSE IF ~g.t2.ok \/ g.t2.arr = <<>> THEN o      \* except Exception: pass
    ELSE ("temp_min" :> PyFloat(MinSeq(g.t2.arr))
          @@ "temp_max" :> PyFloat(MaxSeq(g.t2.arr))) @@ o

\* lines 255-267: rain_sum / pop_max
ReducePrecip(o, g) ==
    IF ~g.pr.found THEN o
    ELSE IF ~g.pr.ok THEN o                         \* except Exception: pass
    ELSE LET arr   == g.pr.arr
             raw   == SumSeq(arr)
             total == IF raw < UnitThreshold THEN raw * 1000 ELSE raw
             wet   == Cardinality({i \in 1..Len(arr) : arr[i] > PopThreshold})
             size  == IF Len(arr) > 1 THEN Len(arr) ELSE 1
         IN  ("rain_sum" :> PyFloat(total)
              @@ "pop_max" :> PyInt(RoundHalfEven(wet * 100, size))) @@ o

\* lines 268-278: wind_max, from wind speed or else from the components
ReduceWind(o, g) ==
    IF g.wspd.found
    THEN IF ~g.wspd.ok \/ g.wspd.arr = <<>> THEN o  \* except Exception: pass
         ELSE ("wind_max" :> PyFloat(MaxSeq(g.wspd.arr))) @@ o
    ELSE IF g.uv.found
    THEN IF ~g.uv.ok \/ g.uv.u = <<>> THEN o        \* except Exception: pass
         ELSE LET spd == [i \in 1..Len(g.uv.u) |->
                              Sqrt(g.uv.u[i] * g.uv.u[i] + g.uv.v[i] * g.uv.v[i])]
              IN  ("wind_max" :> PyFloat(MaxSeq(spd))) @@ o
    ELSE o

\* a plausible slip: one try block around the three reductions, so the
\* first failure abandons the reductions that follow it
ReduceOneTry(g) ==
    LET failT == g.t2.found /\ (~g.t2.ok \/ g.t2.arr = <<>>)
        failP == g.pr.found /\ ~g.pr.ok
    IN  IF failT THEN <<>>
        ELSE IF failP THEN ReduceTemp(<<>>, g)
        ELSE ReduceWind(ReducePrecip(ReduceTemp(<<>>, g), g), g)

\* lines 247-278: out = {} followed by the three try blocks
Reduce(g) == ReduceWind(ReducePrecip(ReduceTemp(<<>>, g), g), g)

\* lines 283-288: out.setdefault(...)
Defaults ==
    [temp_min |-> PyNone, temp_max |-> PyNone, pop_max |-> PyInt(0),
     rain_sum |-> PyFloat(0), wind_max |-> PyNone, first_desc |-> PyStr(<<>>)]

SetDefaults(o) == o @@ Defaults

TryParse(g) ==
    IF ~g.libs THEN PyNone                                   \* 133-137
    ELSE IF ~((g.cfgrib /\ g.grib) \/ g.netcdf) THEN PyNone  \* 140-157
    ELSE IF ~g.latlon THEN PyNone                            \* 160-177
    ELSE IF ~g.indexer THEN PyNone                           \* 180-194
    ELSE IF g.time = "missing" THEN PyNone                   \* 231-232
    ELSE LET o == Reduce(g)
         IN  IF DOMAIN o = {} THEN PyNone                    \* 280-281
             ELSE PyDict(SetDefaults(o))

-----------------------------------------------------------------------------
(* Grids used as decoder inputs.                                           *)
TempVals   == {-2, 5}
PrecipVals == {0, 2, 200, 1500}
WindVals   == {3, 6}
UVals      == {0, 3}
VVals      == {0, 4}

\* a variable _pick does not find
NoVar == [found |-> FALSE, ok |-> TRUE, arr |-> <<>>]
\* a variable whose indexing or selection raises
BadVar == [found |-> TRUE, ok |-> FALSE, arr |-> <<>>]
Var(a) == [found |-> TRUE, ok |-> TRUE, arr |-> a]

NoUV == [found |-> FALSE, ok |-> TRUE, u |-> <<>>, v |-> <<>>]
BadUV == [found |-> TRUE, ok |-> FALSE, u |-> <<>>, v |-> <<>>]
UV(a, b) == [found |-> TRUE, ok |-> TRUE, u |-> a, v |-> b]

Vars(vals, n) == {NoVar, BadVar} \cup {Var(a) : a \in [1..n -> vals]}

\* <<wind speed, wind components>>
Winds(n) ==
    {<<w, NoUV>> : w \in Vars(WindVals, n)}
        \cup {<<NoVar, BadUV>>, <<BadVar, UV([i \in 1..n |-> 3], [i \in 1..n |-> 4])>>}
        \cup {<<NoVar, UV(a, b)>> : a \in [1..n -> UVals], b \in [1..n -> VVals]}

Grid(libs, cfgrib, grib, netcdf, latlon, indexer, time, t2, pr, w) ==
    [libs |-> libs, cfgrib |-> cfgrib, grib |-> grib, netcdf |-> netcdf,
     latlon |-> latlon, indexer |-> indexer, time |-> time,
     t2 |-> t2, pr |-> pr, wspd |-> w[1], uv |-> w[2]]

\* grids the decoder gives up on before any reduction, and the three ways
\* a dataset gets opened
StageGrids ==
    LET t == Var(<<5>>)
        p == Var(<<200>>)
        w == <<Var(<<3>>), NoUV>>
    IN  { Grid(FALSE, TRUE, TRUE, TRUE, TRUE, TRUE, "found", t, p, w),
          Grid(TRUE, FALSE, FALSE, FALSE, TRUE, TRUE, "found", t, p, w),
          Grid(TRUE, TRUE, FALSE, FALSE, TRUE, TRUE, "found", t, p, w),
          Grid(TRUE, TRUE, TRUE, FALSE, FALSE, TRUE, "found", t, p, w),
          Grid(TRUE, TRUE, TRUE, FALSE, TRUE, FALSE, "found", t, p, w),
          Grid(TRUE, TRUE, TRUE, FALSE, TRUE, TRUE, "missing", t, p, w),
          Grid(TRUE, FALSE, FALSE, TRUE, TRUE, TRUE, "found", t, p, w),
          Grid(TRUE, TRUE, FALSE, TRUE, TRUE, TRUE, "found", t, p, w) }

\* g is a grid with a time window of n steps that reaches the reductions
IsWindowGrid(g, n) ==
    \E tm \in {"found", "error"}, t \in Vars(TempVals, n),
       p \in Vars(PrecipVals, n), w \in Winds(n) :
        g = Grid(TRUE, TRUE, TRUE, FALSE, TRUE, TRUE, tm, t, p, w)

-----------------------------------------------------------------------------
(* The KNMI Open Data API helpers (helpers_knmi.py 31-104).                *)

\* an opaque string (an identifier, a key, a URL): one token
Tok(x) == PyStr(<<x>>)

DATASET_CANDIDATES ==
    << [dataset |-> Tok("harmonie_arome_cy43_p1"), version |-> Tok("2")],
       [dataset |-> Tok("harmonie_arome_cy43_p1"), version |-> Tok("1")] >>

\* _get_secret: st.secrets.get(key), or os.environ.get(key) when streamlit
\* or its secrets cannot be read
GetSecret(src) == IF src.streamlit THEN src.secrets ELSE src.environ

\* a plausible slip: the header is built whether or not there is a key
AuthHeaderAlways(src) == PyDict([Authorization |-> GetSecret(src)])

\* _auth_header
AuthHeader(src) ==
    LET key == GetSecret(src)
    IN  IF ~Truthy(key) THEN EmptyDict ELSE PyDict([Authorization |-> key])

\* What a provider answers to one GET: the transport fails ("error"), the
\* status is not a success ("status"), the body is not JSON ("notjson"),
\* or the body is the JSON value js.
Failure(kind) == [kind |-> kind, js |-> PyNone]
Json(js)      == [kind |-> "json", js |-> js]
Failures      == {Failure("error"), Failure("status"), Failure("notjson")}

\* the shared body of _list_instances and _list_files:
\*   js.get(key) or js.get("data") or [], kept only if it is a list
ListOf(resp, key) ==
    IF resp.kind # "json" THEN PyList(<<>>)          \* not r.ok / except
    ELSE IF resp.js.t # "dict" THEN PyList(<<>>)     \* js.get raises: except
    ELSE LET got == Or(Or(Get(resp.js, key, PyNone), Get(resp.js, "data", PyNone)),
                       PyList(<<>>))
         IN  IF got.t = "list" THEN got ELSE PyList(<<>>)

ListInstances(resp) == ListOf(resp, "instances")
ListFiles(resp)     == ListOf(resp, "files")

\* sorted(versions)[-1] for the version strings a response carries
VersionRank(v) ==
    CASE v.s = <<"1">> -> 1 [] v.s = <<"2">> -> 2 [] OTHER -> 0

LatestOf(vs) ==
    CHOOSE m \in {vs[i] : i \in 1..Len(vs)} :
        \A i \in 1..Len(vs) : VersionRank(vs[i]) <= VersionRank(m)

\* _pick_latest_version
PickLatestVersion(resp) ==
    IF resp.kind # "json" THEN PyNone
    ELSE IF resp.js.t # "dict" THEN PyNone
    ELSE LET versions == Or(Or(Get(resp.js, "versions", PyNone),
                               Get(resp.js, "data", PyNone)), resp.js)
         IN  IF versions.t = "list" /\ versions.l # <<>>
             THEN LatestOf(versions.l) ELSE PyNone

\* _get_file_url
GetFileUrl(resp) ==
    IF resp.kind # "json" THEN PyNone
    ELSE IF resp.js.t # "dict" THEN PyNone
    ELSE Or(Get(resp.js, "temporaryDownloadUrl", PyNone), Get(resp.js, "url", PyNone))

\* the run actually used (line 319): instances[-1]
\* a plausible slip: the first run instead of the last
FirstRun(runs) == runs[1]

LatestRun(runs) == runs[Len(runs)]

\* line 320: inst.get("instanceId") or inst.get("id") or inst.get("name");
\* AttributeError when the element is not a dict
InstanceIdOf(inst) ==
    IF inst.t # "dict" THEN Raise
    ELSE Or(Or(Get(inst, "instanceId", PyNone), Get(inst, "id", PyNone)),
            Get(inst, "name", PyNone))

\* one HTTP request of the resolver: the endpoint and its arguments
Request(ep, ds, ver, inst, file, u) ==
    [ep |-> ep, dataset |-> ds, version |-> ver, instance |-> inst,
     filename |-> file, url |-> u]

-----------------------------------------------------------------------------
(* Provider responses the resolver is run against.                         *)
KeyValues == {PyNone, PyStr(<<>>), Tok("knmi-key")}

RunElems ==
    { PyDict([instanceId |-> Tok("run1")]),
      PyDict([instanceId |-> PyStr(<<>>), id |-> Tok("run2")]),
      PyDict([size |-> PyInt(1)]),
      Tok("run1") }

RunResponses ==
    Failures
        \cup {Json(PyList(<<>>)), Json(EmptyDict),
              Json(PyDict([instances |-> Tok("x"),
                           data |-> PyList(<<PyDict([instanceId |-> Tok("run1")])>>)])),
              Json(PyDict([data |-> PyList(<<PyDict([name |-> Tok("run3")])>>)]))}
        \cup {Json(PyDict([instances |-> PyList(l)])) : l \in SeqsUpTo(RunElems, MaxRuns)}

KnmiFileElems ==
    {File(Name_a_grib2), File(Name_d_nc), EmptyDict, FileNoName, FileBadName, FileNotObj}

FileResponses ==
    Failures
        \cup {Json(PyList(<<>>)), Json(EmptyDict),
              Json(PyDict([data |-> PyList(<<File(Name_f_txt)>>)]))}
        \cup {Json(PyDict([files |-> PyList(l)])) : l \in SeqsUpTo(KnmiFileElems, MaxListing)}

VersionResponses ==
    Failures
        \cup {Json(PyDict([versions |-> PyList(<<Tok("1"), Tok("2")>>)])),
              Json(PyDict([versions |-> PyList(<<>>)]))}

UrlResponses ==
    Failures
        \cup {Json(PyList(<<>>)), Json(EmptyDict),
              Json(PyDict([temporaryDownloadUrl |-> Tok("https://download/1")])),
              Json(PyDict([url |-> Tok("https://download/2")]))}

DownloadResponses == {"error", "status", "ok"}

\* what the downloaded payload may decode to
SampleGrids ==
    StageGrids
        \cup { Grid(TRUE, TRUE, TRUE, FALSE, TRUE, TRUE, "found",
                    BadVar, Var(<<200>>), <<NoVar, NoUV>>),
               Grid(TRUE, TRUE, TRUE, FALSE, TRUE, TRUE, "found",
                    NoVar, NoVar, <<NoVar, NoUV>>) }

-----------------------------------------------------------------------------
(* The provider clients of pages/storemanager.py (lines 103-152).          *)
(* Each returns [val |-> the value returned, reqs |-> the requests sent];  *)
(* val is Raise while an exception is propagating.                         *)

Result(val, reqs) == [val |-> val, reqs |-> reqs]

\* try: <body>  except: return <fallback>
Except(body, fallback) ==
    IF body.val = Raise THEN Result(fallback, body.reqs) ELSE body

\* fc["list"][:16]
FcSteps == 16

Take(l, n) == SubSeq(l, 1, IF Len(l) < n THEN Len(l) ELSE n)

\* the number a pop value stands for, in hundredths
PopHundredths(p) == IF p.t = "int" THEN p.n * 100 ELSE p.x

\* max(pops): the first of the greatest elements
MaxPop(pops) ==
    LET best == CHOOSE i \in 1..Len(pops) :
                    /\ \A j \in 1..Len(pops) : PopHundredths(pops[j]) <= PopHundredths(pops[i])
                    /\ \A j \in 1..(i - 1) : PopHundredths(pops[j]) < PopHundredths(pops[i])
    IN  pops[best]

\* max(pops)*100: an int stays an int, a float stays a float (in percent)
Times100(p) == IF p.t = "int" THEN PyInt(p.n * 100) ELSE PyFloat(p.x)

\* i["main"]["temp"]: KeyError / TypeError unless both levels are there
TempOf(e) ==
    IF e.t # "dict" \/ "main" \notin DOMAIN e.d THEN Raise
    ELSE IF e.d["main"].t # "dict" \/ "temp" \notin DOMAIN e.d["main"].d THEN Raise
    ELSE e.d["main"].d["temp"]

\* lines 112-114 on the decoded forecast fc
SummariseForecast(fc) ==
    IF fc.t # "dict" \/ "list" \notin DOMAIN fc.d THEN Raise       \* fc["list"]
    ELSE IF fc.d["list"].t # "list" THEN Raise
    ELSE LET steps == Take(fc.d["list"].l, FcSteps)
             temps == [i \in 1..Len(steps) |-> TempOf(steps[i])]
             pops  == [i \in 1..Len(steps) |-> Get(steps[i], "pop", PyInt(0))]
         IN  IF \E i \in 1..Len(steps) : temps[i] = Raise THEN Raise
             ELSE IF steps = <<>> THEN Raise                        \* min([])
             ELSE PyDict([temp_min |-> PyFloat(MinSeq([i \in 1..Len(temps) |-> temps[i].x])),
                          temp_max |-> PyFloat(MaxSeq([i \in 1..Len(temps) |-> temps[i].x])),
                          pop_max  |-> Times100(MaxPop(pops))])

\* fetch_weather (lines 104-115)
FetchWeather(key, pc4, geo, fc) ==
    IF ~Truthy(key) \/ ~Truthy(pc4) THEN Result(PyNone, <<>>)
    ELSE Except(
           IF geo.kind # "json" THEN Result(Raise, <<"geo">>)       \* get / .json()
           ELSE IF geo.js.t # "dict" THEN Result(Raise, <<"geo">>)  \* geo.get
           ELSE IF fc.kind # "json" THEN Result(Raise, <<"geo", "forecast">>)
           ELSE Result(SummariseForecast(fc.js), <<"geo", "forecast">>),
           PyNone)

\* lines 121-126, the body of the try block
CbsConfidenceBody(resp) ==
    IF resp.kind # "json" THEN Result(Raise, <<"cbs">>)
    ELSE IF resp.js.t # "dict" THEN Result(Raise, <<"cbs">>)          \* js.get
    ELSE LET data == Or(Get(resp.js, "value", PyNone), PyList(<<>>))
         IN  IF ~Truthy(data) THEN Result(PyNone, <<"cbs">>)
             ELSE IF data.t # "list" THEN Result(Raise, <<"cbs">>)     \* data[0]
             ELSE IF data.l[1].t # "dict" THEN Result(Raise, <<"cbs">>) \* row.get
             ELSE LET row == data.l[1]
                  IN  Result(PyDict(
                          [consumer_confidence |->
                               Or(Get(row, "ConConfidence", PyNone),
                                  Get(row, "Value", PyNone)),
                           period |-> Get(row, "Periods", PyNone)]),
                          <<"cbs">>)

\* a plausible slip: the guard on the endpoint is missing
FetchCbsConfidenceUnguarded(endpoint, resp) ==
    Except(CbsConfidenceBody(resp), PyNone)

\* fetch_cbs_confidence (lines 118-127)
FetchCbsConfidence(endpoint, resp) ==
    IF ~Truthy(endpoint) THEN Result(PyNone, <<>>)
    ELSE Except(CbsConfidenceBody(resp), PyNone)

\* the index of the first ">" of s, 0 when there is none
RECURSIVE FirstClose(_, _)
FirstClose(s, i) ==
    IF i > Len(s) THEN 0 ELSE IF s[i] = ">" THEN i ELSE FirstClose(s, i + 1)

\* re.sub("<.*?>", "", t)
RECURSIVE StripTags(_)
StripTags(s) ==
    IF s = <<>> THEN <<>>
    ELSE IF Head(s) = "<" /\ FirstClose(s, 2) # 0
         THEN StripTags(SubSeq(s, FirstClose(s, 2) + 1, Len(s)))
         ELSE <<Head(s)>> \o StripTags(Tail(s))

\* fetch_econ_news (lines 130-136); the document is given as the sequence
\* of its <title>...</title> contents, in document order
FetchEconNews(endpoint, resp) ==
    IF ~Truthy(endpoint) THEN Result(PyList(<<>>), <<>>)
    ELSE Except(
           IF resp.kind # "text" THEN Result(Raise, <<"rss">>)
           ELSE LET titles == SubSeq(resp.titles, 2, IF Len(resp.titles) < 4
                                                     THEN Len(resp.titles) ELSE 4)
                IN  Result(PyList([i \in 1..Len(titles) |-> PyStr(StripTags(titles[i]))]),
                           <<"rss">>),
           PyList(<<>>))

\* s[a:b]
Slice(s, a, b) == SubSeq(s, a + 1, IF Len(s) < b THEN Len(s) ELSE b)

\* f"{d[:4]}-{d[4:6]}-{d[6:8]}"
IsoDate(d) == Slice(d, 0, 4) \o <<"-">> \o Slice(d, 4, 6) \o <<"-">> \o Slice(d, 6, 8)

\* lines 144-150: the scan over the calendar lines; a line is its marker
\* (DTSTART, SUMMARY, END for END:VEVENT, OTHER) and its text after the
\* colon.  Yields the dict `out`, or Raise on cur["summary"] (KeyError).
RECURSIVE ScanLines(_, _, _, _)
ScanLines(lines, i, acc, cur) ==
    IF i > Len(lines) THEN PyDict(acc)
    ELSE LET ln == lines[i]
         IN  IF ln.k = "DTSTART"
             THEN ScanLines(lines, i + 1, acc, ("date" :> IsoDate(ln.v)) @@ cur)
             ELSE IF ln.k = "SUMMARY"
             THEN ScanLines(lines, i + 1, acc, ("summary" :> ln.v) @@ cur)
             ELSE IF ln.k = "END" /\ "date" \in DOMAIN cur
             THEN IF "summary" \notin DOMAIN cur THEN Raise
                  ELSE ScanLines(lines, i + 1,
                                 (cur["date"] :> PyStr(cur["summary"])) @@ acc, <<>>)
             ELSE ScanLines(lines, i + 1, acc, cur)

\* a plausible slip: no except clause around the scan
FetchHolidaysNoExcept(endpoint, resp) ==
    IF ~Truthy(endpoint) THEN Result(EmptyDict, <<>>)
    ELSE IF resp.kind # "text" THEN Result(Raise, <<"ics">>)
    ELSE Result(ScanLines(resp.lines, 1, <<>>, <<>>), <<"ics">>)

\* fetch_holidays (lines 139-152)
FetchHolidays(endpoint, resp) ==
    IF ~Truthy(endpoint) THEN Result(EmptyDict, <<>>)
    ELSE Except(
           IF resp.kind # "text" THEN Result(Raise, <<"ics">>)
           ELSE Result(ScanLines(resp.lines, 1, <<>>, <<>>), <<"ics">>),
           EmptyDict)

-----------------------------------------------------------------------------
(* Provider responses the page is run against.                             *)
Configured(value) == {PyStr(<<>>), Tok(value)}

GeoResponses ==
    { Failure("error"), Failure("notjson"), Json(PyList(<<>>)),
      Json(PyDict([cod |-> Tok("404")])),
      Json(PyDict([lat |-> PyFloat(52), lon |-> PyFloat(5)])) }

Step(temp, pop) == PyDict([main |-> PyDict([temp |-> PyFloat(temp)]), pop |-> pop])

FcEntries ==
    { Step(10, PyFloat(35)),
      PyDict([main |-> PyDict([temp |-> PyFloat(4)])]),
      PyDict([main |-> EmptyDict]) }

\* seventeen steps: the last one lies beyond fc["list"][:16]
LongForecast ==
    [i \in 1..(FcSteps + 1) |-> IF i <= FcSteps THEN Step(4, PyFloat(20))
                                ELSE Step(30, PyFloat(90))]

FcResponses ==
    { Failure("error"), Failure("notjson"), Json(PyDict([cod |-> Tok("401")])),
      Json(PyDict([list |-> Tok("x")])), Json(PyDict([list |-> PyList(LongForecast)])) }
        \cup {Json(PyDict([list |-> PyList(l)])) : l \in SeqsUpTo(FcEntries, MaxFc)}

CbsResponses ==
    { Failure("error"), Failure("notjson"), Json(PyList(<<>>)), Json(EmptyDict),
      Json(PyDict([value |-> PyList(<<>>)])),
      Json(PyDict([value |-> Tok("x")])),
      Json(PyDict([value |-> PyList(<<Tok("row")>>)])),
      Json(PyDict([value |-> PyList(<<PyDict([ConConfidence |-> PyInt(-21),
                                              Periods |-> Tok("2026MM10")])>>)])),
      Json(PyDict([value |-> PyList(<<PyDict([ConConfidence |-> PyInt(0),
                                              Value |-> PyInt(-19)]),
                                      Tok("row")>>)])) }

Titles == { <<"F">>,
            <<"a", "<", "b", ">", "x", "<", "/", "b", ">", "<">> }

NewsResponses ==
    {[kind |-> "error", titles |-> <<>>]}
        \cup {[kind |-> "text", titles |-> d] : d \in SeqsUpTo(Titles, MaxTitles)}

\* str(TODAY) and DTSTART values
TodayIso == <<"2", "0", "2", "6", "-", "1", "1", "-", "0", "2">>
Today8   == <<"2", "0", "2", "6", "1", "1", "0", "2">>
Xmas8    == <<"2", "0", "2", "6", "1", "2", "2", "5">>

Line(k, v) == [k |-> k, v |-> v]

IcsLines ==
    { Line("DTSTART", Today8), Line("DTSTART", Xmas8),
      Line("SUMMARY", <<"A">>), Line("END", <<>>), Line("OTHER", <<>>) }

IcsResponses ==
    {[kind |-> "error", lines |-> <<>>]}
        \cup {[kind |-> "text", lines |-> l] : l \in SeqsUpTo(IcsLines, MaxLines)}

-----------------------------------------------------------------------------
(* Values of the variables a specification does not use.                   *)
IdleAgg ==
    /\ pc = "idle" /\ cfg = <<>> /\ weather = PyNone /\ cci = PyNone
    /\ news = PyNone /\ hol = PyNone /\ ai_context = PyNone
    /\ calls = <<>> /\ requests = <<>> /\ raised = FALSE /\ failed = {}

IdleKnmi ==
    /\ kpc = "idle" /\ secret = <<>> /\ cand = 0 /\ dataset = PyNone
    /\ version = PyNone /\ instances = PyNone /\ instance_id = PyNone
    /\ files = PyNone /\ f = PyNone /\ url = PyNone /\ summary = PyNone
    /\ knmi_requests = <<>> /\ knmi_raised = FALSE

IdleSel == spc = "idle" /\ listing = <<>> /\ chosen = PyNone

IdleDec == dpc = "idle" /\ grid = <<>> /\ out = PyNone

IdleHol == hpc = "idle" /\ ics_lines = <<>> /\ holidays = PyNone

-----------------------------------------------------------------------------
(* SpecFiles: _find_candidate_file applied once to a listing.              *)
InitFiles ==
    /\ spc = "call"
    /\ listing \in SeqsUpTo(FileElems, MaxFiles)
    /\ chosen = PyNone
    /\ IdleAgg /\ IdleKnmi /\ IdleDec /\ IdleHol

CallFindCandidateFile ==
    /\ spc = "call"
    /\ chosen' = FindCandidateFile(listing)
    /\ spc' = "done"
    /\ UNCHANGED <<listing, aggVars, knmiVars, decVars, holVars>>

NextFiles == CallFindCandidateFile

SpecFiles == InitFiles /\ [][NextFiles]_vars

-----------------------------------------------------------------------------
(* SpecDecoder: the decoder applied once to a grid.                        *)
InitDecoder ==
    /\ dpc = "call"
    /\ \E n \in 0..(MaxSteps + 1) :
           IF n <= MaxSteps THEN IsWindowGrid(grid, n) ELSE grid \in StageGrids
    /\ out = PyNone
    /\ IdleAgg /\ IdleKnmi /\ IdleSel /\ IdleHol

CallTryParse ==
    /\ dpc = "call"
    /\ out' = TryParse(grid)
    /\ dpc' = "done"
    /\ UNCHANGED <<grid, aggVars, knmiVars, selVars, holVars>>

NextDecoder == CallTryParse

SpecDecoder == InitDecoder /\ [][NextDecoder]_vars

-----------------------------------------------------------------------------
(* SpecHolidays: fetch_holidays applied once to a calendar document.       *)

\* the lines a calendar document is made of: two dates, two labels, the
\* event terminator and any other line (BEGIN:VEVENT among them)
EventLines == IcsLines \cup {Line("SUMMARY", <<"B">>)}

InitHolidays ==
    /\ hpc = "call"
    /\ ics_lines \in SeqsUpTo(EventLines, MaxEventLines)
    /\ holidays = PyNone
    /\ IdleAgg /\ IdleKnmi /\ IdleSel /\ IdleDec

CallFetchHolidays ==
    /\ hpc = "call"
    /\ holidays' = FetchHolidays(Tok("https://ics"),
                                 [kind |-> "text", lines |-> ics_lines]).val
    /\ hpc' = "done"
    /\ UNCHANGED <<ics_lines, aggVars, knmiVars, selVars, decVars>>

NextHolidays == CallFetchHolidays

SpecHolidays == InitHolidays /\ [][NextHolidays]_vars

-----------------------------------------------------------------------------
(* Which answers count as a failed source (missing configuration,          *)
(* transport error, malformed payload); recorded in `failed`.              *)
ForecastWellFormed(js) ==
    /\ js.t = "dict" /\ "list" \in DOMAIN js.d
    /\ js.d["list"].t = "list" /\ js.d["list"].l # <<>>
    /\ \A i \in 1..Len(Take(js.d["list"].l, FcSteps)) : TempOf(js.d["list"].l[i]) # Raise

WeatherSourceFails(key, pc4, geo, fc) ==
    \/ ~Truthy(key) \/ ~Truthy(pc4)
    \/ geo.kind # "json" \/ geo.js.t # "dict"
    \/ fc.kind # "json" \/ ~ForecastWellFormed(fc.js)

CbsSourceFails(endpoint, resp) ==
    \/ ~Truthy(endpoint)
    \/ resp.kind # "json" \/ resp.js.t # "dict"
    \/ "value" \notin DOMAIN resp.js.d
    \/ resp.js.d["value"].t # "list" \/ resp.js.d["value"].l = <<>>
    \/ resp.js.d["value"].l[1].t # "dict"

NewsSourceFails(endpoint, resp) == ~Truthy(endpoint) \/ resp.kind # "text"

IcsSourceFails(endpoint, resp) ==
    \/ ~Truthy(endpoint) \/ resp.kind # "text"
    \/ ScanLines(resp.lines, 1, <<>>, <<>>) = Raise

Mark(signal, fails) == IF fails THEN failed \cup {signal} ELSE failed

-----------------------------------------------------------------------------
(* Spec: the page computing the signals and ai_context                     *)
(* (pages/storemanager.py 176-185), one action per statement.              *)
Init ==
    /\ pc = "weather"
    /\ cfg \in [OPENWEATHER_API_KEY : Configured("owm-key"),
                store_pc            : Configured("3811"),
                CBS_CONFIDENCE_URL  : Configured("https://cbs"),
                ECON_NEWS_RSS       : Configured("https://rss"),
                HOLIDAYS_NL_ICS     : Configured("https://ics")]
    /\ weather = PyNone /\ cci = PyNone /\ news = PyNone /\ hol = PyNone
    /\ ai_context = PyNone
    /\ calls = <<>> /\ requests = <<>>
    /\ raised = FALSE /\ failed = {}
    /\ IdleKnmi /\ IdleSel /\ IdleDec /\ IdleHol

\* line 176: weather=fetch_weather(store_pc)
PageWeather ==
    /\ pc = "weather"
    /\ \E geo \in GeoResponses, fc \in FcResponses :
          LET r == FetchWeather(cfg.OPENWEATHER_API_KEY, cfg.store_pc, geo, fc)
          IN  /\ calls' = Append(calls, "fetch_weather")
              /\ requests' = requests \o r.reqs
              /\ failed' = Mark("weather",
                     WeatherSourceFails(cfg.OPENWEATHER_API_KEY, cfg.store_pc, geo, fc))
              /\ IF r.val = Raise
                 THEN raised' = TRUE /\ pc' = "raised" /\ UNCHANGED weather
                 ELSE weather' = r.val /\ pc' = "cci" /\ UNCHANGED raised
    /\ UNCHANGED <<cfg, cci, news, hol, ai_context>>
    /\ UNCHANGED <<knmiVars, selVars, decVars, holVars>>

\* line 177: cci=fetch_cbs_confidence()
PageCci ==
    /\ pc = "cci"
    /\ \E resp \in CbsResponses :
          LET r == FetchCbsConfidence(cfg.CBS_CONFIDENCE_URL, resp)
          IN  /\ calls' = Append(calls, "fetch_cbs_confidence")
              /\ requests' = requests \o r.reqs
              /\ failed' = Mark("cci", CbsSourceFails(cfg.CBS_CONFIDENCE_URL, resp))
              /\ IF r.val = Raise
                 THEN raised' = TRUE /\ pc' = "raised" /\ UNCHANGED cci
                 ELSE cci' = r.val /\ pc' = "news" /\ UNCHANGED raised
    /\ UNCHANGED <<cfg, weather, news, hol, ai_context>>
    /\ UNCHANGED <<knmiVars, selVars, decVars, holVars>>

\* line 178: news=fetch_econ_news()
PageNews ==
    /\ pc = "news"
    /\ \E resp \in NewsResponses :
          LET r == FetchEconNews(cfg.ECON_NEWS_RSS, resp)
          IN  /\ calls' = Append(calls, "fetch_econ_news")
              /\ requests' = requests \o r.reqs
              /\ failed' = Mark("news", NewsSourceFails(cfg.ECON_NEWS_RSS, resp))
              /\ IF r.val = Raise
                 THEN raised' = TRUE /\ pc' = "raised" /\ UNCHANGED news
                 ELSE news' = r.val /\ pc' = "holidays" /\ UNCHANGED raised
    /\ UNCHANGED <<cfg, weather, cci, hol, ai_context>>
    /\ UNCHANGED <<knmiVars, selVars, decVars, holVars>>

\* line 179: hol=fetch_holidays().get(str(TODAY))
PageHoliday ==
    /\ pc = "holidays"
    /\ \E resp \in IcsResponses :
          LET r == FetchHolidays(cfg.HOLIDAYS_NL_ICS, resp)
          IN  /\ calls' = Append(calls, "fetch_holidays")
              /\ requests' = requests \o r.reqs
              /\ failed' = Mark("holiday", IcsSourceFails(cfg.HOLIDAYS_NL_ICS, resp))
              /\ IF r.val = Raise
                 THEN raised' = TRUE /\ pc' = "raised" /\ UNCHANGED hol
                 ELSE hol' = Get(r.val, TodayIso, PyNone) /\ pc' = "context"
                      /\ UNCHANGED raised
    /\ UNCHANGED <<cfg, weather, cci, news, ai_context>>
    /\ UNCHANGED <<knmiVars, selVars, decVars, holVars>>

\* the page's own figures (lines 155-173), opaque here
StoreName  == Tok("store")
DayFigures == PyDict([count_in |-> PyFloat(0)])
PeerMedian == PyDict([conv |-> PyFloat(0), spv |-> PyFloat(0)])

\* lines 181-185: ai_context={...}
PageContext ==
    /\ pc = "context"
    /\ ai_context' = PyDict([store |-> StoreName, yesterday |-> DayFigures,
                             day_before |-> DayFigures, peer_median |-> PeerMedian,
                             weather |-> weather, cci |-> cci, news |-> news,
                             holiday |-> hol])
    /\ pc' = "done"
    /\ UNCHANGED <<cfg, weather, cci, news, hol, calls, requests, raised, failed>>
    /\ UNCHANGED <<knmiVars, selVars, decVars, holVars>>

Next == PageWeather \/ PageCci \/ PageNews \/ PageHoliday \/ PageContext

Spec == Init /\ [][Next]_vars

-----------------------------------------------------------------------------
(* SpecKnmi: one invocation of fetch_knmi_48h_summary                      *)
(* (helpers_knmi.py 291-345), one action per network step.                 *)
InitKnmi ==
    /\ kpc = "start"
    /\ secret \in [streamlit : BOOLEAN, secrets : KeyValues, environ : KeyValues]
    /\ cand = 0
    /\ dataset = PyNone /\ version = PyNone /\ instances = PyNone
    /\ instance_id = PyNone /\ files = PyNone /\ f = PyNone /\ url = PyNone
    /\ summary = PyNone
    /\ knmi_requests = <<>>
    /\ knmi_raised = FALSE
    /\ IdleAgg /\ IdleSel /\ IdleDec /\ IdleHol

\* lines 296-298: headers = _auth_header(); if not headers: return None
KStart ==
    /\ kpc = "start"
    /\ IF ~Truthy(AuthHeader(secret))
       THEN kpc' = "done" /\ cand' = cand
       ELSE kpc' = "scan" /\ cand' = 1
    /\ UNCHANGED <<secret, dataset, version, instances, instance_id, files, f,
                   url, summary, knmi_requests, knmi_raised>>
    /\ UNCHANGED <<aggVars, selVars, decVars, holVars>>

\* the end of one iteration without a break: next candidate, or the loop
\* is over and lines 312-313 return None
ScanAdvance ==
    IF cand < Len(DATASET_CANDIDATES)
    THEN cand' = cand + 1 /\ kpc' = "scan"
    ELSE cand' = cand /\ kpc' = "done"

\* lines 306-310 for the candidate c with the version v; vreqs are the
\* version requests lines 303-305 have issued
ScanWith(c, v, vreqs, ri) ==
    IF Truthy(v)
    THEN LET runs == ListInstances(ri)
         IN  /\ knmi_requests' = knmi_requests \o vreqs \o
                    <<Request("instances", c.dataset, v, PyNone, PyNone, PyNone)>>
             /\ instances' = runs
             /\ IF Truthy(runs)
                THEN dataset' = c.dataset /\ version' = v
                     /\ kpc' = "relist" /\ cand' = cand
                ELSE UNCHANGED <<dataset, version>> /\ ScanAdvance
    ELSE /\ knmi_requests' = knmi_requests \o vreqs
         /\ UNCHANGED <<instances, dataset, version>>
         /\ ScanAdvance

\* lines 302-310: one iteration of the loop over DATASET_CANDIDATES
KScan ==
    /\ kpc = "scan"
    /\ LET c    == DATASET_CANDIDATES[cand]
           vreq == Request("versions", c.dataset, PyNone, PyNone, PyNone, PyNone)
       IN  IF Truthy(c.version)
           THEN \E ri \in RunResponses : ScanWith(c, c.version, <<>>, ri)
           ELSE \E r1 \in VersionResponses, r2 \in VersionResponses, ri \in RunResponses :
                    LET v1 == PickLatestVersion(r1)
                    IN  IF v1 = PyNone
                        THEN ScanWith(c, PickLatestVersion(r2), <<vreq, vreq>>, ri)
                        ELSE ScanWith(c, v1, <<vreq>>, ri)
    /\ UNCHANGED <<secret, instance_id, files, f, url, summary, knmi_raised>>
    /\ UNCHANGED <<aggVars, selVars, decVars, holVars>>

\* lines 315-322: list the runs again, take the last one and its id
KRelist ==
    /\ kpc = "relist"
    /\ \E ri \in RunResponses :
          LET runs == ListInstances(ri)
              id   == IF Truthy(runs) THEN InstanceIdOf(LatestRun(runs.l)) ELSE PyNone
          IN  /\ instances' = runs
              /\ knmi_requests' = Append(knmi_requests,
                     Request("instances", dataset, version, PyNone, PyNone, PyNone))
              /\ IF ~Truthy(runs)
                 THEN kpc' = "done" /\ UNCHANGED <<instance_id, knmi_raised>>
                 ELSE IF id = Raise
                 THEN kpc' = "raised" /\ knmi_raised' = TRUE /\ UNCHANGED instance_id
                 ELSE /\ instance_id' = id
                      /\ kpc' = IF Truthy(id) THEN "files" ELSE "done"
                      /\ UNCHANGED knmi_raised
    /\ UNCHANGED <<secret, cand, dataset, version, files, f, url, summary>>
    /\ UNCHANGED <<aggVars, selVars, decVars, holVars>>

\* a plausible slip: an empty file listing is requested a second time
KListFilesRetry ==
    /\ kpc = "files"
    /\ \E rf \in FileResponses, rg \in FileResponses :
          LET first == ListFiles(rf)
              fl    == IF Truthy(first) THEN first ELSE ListFiles(rg)
              req   == Request("files", dataset, version, instance_id, PyNone, PyNone)
              pick  == IF Truthy(fl) THEN FindCandidateFile(fl.l) ELSE PyNone
          IN  /\ files' = fl
              /\ knmi_requests' = knmi_requests \o
                     (IF Truthy(first) THEN <<req>> ELSE <<req, req>>)
              /\ IF ~Truthy(fl)
                 THEN kpc' = "done" /\ UNCHANGED <<f, knmi_raised>>
                 ELSE IF pick = Raise
                 THEN kpc' = "raised" /\ knmi_raised' = TRUE /\ UNCHANGED f
                 ELSE /\ f' = pick
                      /\ kpc' = IF Truthy(pick) THEN "url" ELSE "done"
                      /\ UNCHANGED knmi_raised
    /\ UNCHANGED <<secret, cand, dataset, version, instances, instance_id, url, summary>>
    /\ UNCHANGED <<aggVars, selVars, decVars, holVars>>

\* lines 324-329: list the files of the run and select one
KListFiles ==
    /\ kpc = "files"
    /\ \E rf \in FileResponses :
          LET fl   == ListFiles(rf)
              pick == IF Truthy(fl) THEN FindCandidateFile(fl.l) ELSE PyNone
          IN  /\ files' = fl
              /\ knmi_requests' = Append(knmi_requests,
                     Request("files", dataset, version, instance_id, PyNone, PyNone))
              /\ IF ~Truthy(fl)
                 THEN kpc' = "done" /\ UNCHANGED <<f, knmi_raised>>
                 ELSE IF pick = Raise
                 THEN kpc' = "raised" /\ knmi_raised' = TRUE /\ UNCHANGED f
                 ELSE /\ f' = pick
                      /\ kpc' = IF Truthy(pick) THEN "url" ELSE "done"
                      /\ UNCHANGED knmi_raised
    /\ UNCHANGED <<secret, cand, dataset, version, instances, instance_id, url, summary>>
    /\ UNCHANGED <<aggVars, selVars, decVars, holVars>>

\* lines 331-334: filename = f.get("filename"); url = _get_file_url(...)
KResolveUrl ==
    /\ kpc = "url"
    /\ IF f.t # "dict"
       THEN kpc' = "raised" /\ knmi_raised' = TRUE /\ UNCHANGED <<url, knmi_requests>>
       ELSE \E ru \in UrlResponses :
               LET u == GetFileUrl(ru)
               IN  /\ url' = u
                   /\ knmi_requests' = Append(knmi_requests,
                          Request("url", dataset, version, instance_id,
                                  Get(f, "filename", PyNone), PyNone))
                   /\ kpc' = IF Truthy(u) THEN "download" ELSE "done"
                   /\ UNCHANGED knmi_raised
    /\ UNCHANGED <<secret, cand, dataset, version, instances, instance_id, files, f, summary>>
    /\ UNCHANGED <<aggVars, selVars, decVars, holVars>>

\* lines 337-342: requests.get(url, timeout=60); raise_for_status()
KDownload ==
    /\ kpc = "download"
    /\ \E rd \in DownloadResponses :
          /\ knmi_requests' = Append(knmi_requests,
                 Request("download", PyNone, PyNone, PyNone, PyNone, url))
          /\ kpc' = IF rd = "ok" THEN "parse" ELSE "done"
    /\ UNCHANGED <<secret, cand, dataset, version, instances, instance_id, files, f,
                   url, summary, knmi_raised>>
    /\ UNCHANGED <<aggVars, selVars, decVars, holVars>>

\* line 345: return _try_parse_grib_or_netcdf_to_timeseries(content, lat, lon)
KParse ==
    /\ kpc = "parse"
    /\ \E g \in SampleGrids : summary' = TryParse(g)
    /\ kpc' = "done"
    /\ UNCHANGED <<secret, cand, dataset, version, instances, instance_id, files, f,
                   url, knmi_requests, knmi_raised>>
    /\ UNCHANGED <<aggVars, selVars, decVars, holVars>>

NextKnmi == KStart \/ KScan \/ KRelist \/ KListFiles \/ KResolveUrl \/ KDownload \/ KParse

SpecKnmi == InitKnmi /\ [][NextKnmi]_vars

-----------------------------------------------------------------------------
(* Claims about _find_candidate_file, checked under SpecFiles.             *)

\* a listing of file objects: every element is a dict whose filename, when
\* present, is a str
IsFileObject(e) ==
    /\ e.t = "dict"
    /\ "filename" \in DOMAIN e.d => e.d["filename"].t = "str"

FileObjects(l) == \A i \in 1..Len(l) : IsFileObject(l[i])

\* the lower-cased name of a file object ends in one of the extensions
HasExtension(e, exts) ==
    LET name == IF "filename" \in DOMAIN e.d THEN e.d["filename"].s ELSE <<>>
    IN  \E x \in exts : EndsWith(Lower(name), x)

GribExts == {DotGrib2, DotGrb2, DotGrb}
NcExts   == {DotNc}

\* e is the first element of l having one of the extensions
FirstWith(l, exts, e) ==
    \E i \in 1..Len(l) :
        /\ HasExtension(l[i], exts)
        /\ \A j \in 1..(i - 1) : ~HasExtension(l[j], exts)
        /\ e = l[i]

\* C5: for every non-empty listing of file objects _find_candidate_file
\* returns the first file whose lower-cased name ends in .grib2, .grb2 or
\* .grb if there is one, otherwise the first whose name ends in .nc if
\* there is one, otherwise the first file of the listing; the empty
\* listing yields None.  (So a listing holding a .grib2 and a .nc entry
\* yields the .grib2 entry in either order.)
C5_SelectionOrder ==
    (spc = "done" /\ FileObjects(listing)) =>
        IF listing = <<>> THEN chosen = PyNone
        ELSE IF \E i \in 1..Len(listing) : HasExtension(listing[i], GribExts)
             THEN FirstWith(listing, GribExts, chosen)
        ELSE IF \E i \in 1..Len(listing) : HasExtension(listing[i], NcExts)
             THEN FirstWith(listing, NcExts, chosen)
        ELSE chosen = listing[1]

\* C5 witness: the .nc entry comes first, the .grib2 entry is returned
C5_Witness ==
    /\ spc = "done"
    /\ listing = <<File(Name_d_nc), File(Name_a_grib2)>>
    /\ chosen = File(Name_a_grib2)

-----------------------------------------------------------------------------
(* Claims about the decoder, checked under SpecDecoder.                    *)

\* the decoder gets as far as the reductions
ReachesReductions(g) ==
    /\ g.libs
    /\ (g.cfgrib /\ g.grib) \/ g.netcdf
    /\ g.latlon /\ g.indexer
    /\ g.time # "missing"

SummaryKeys == {"temp_min", "temp_max", "pop_max", "rain_sum", "wind_max", "first_desc"}

\* C10: the three reductions are independent: each field of the result is
\* what the reduction of its own variable yields when run alone, whatever
\* happens to the other two; a field no reduction yields has its default
\* (temp_min, temp_max, wind_max None; pop_max 0; rain_sum 0.0; first_desc
\* ""); and the decoder returns None exactly when no field was derived.
C10_IndependentReductions ==
    dpc = "done" =>
        LET T == ReduceTemp(<<>>, grid)
            P == ReducePrecip(<<>>, grid)
            W == ReduceWind(<<>>, grid)
            derived == IF ReachesReductions(grid)
                       THEN DOMAIN T \cup DOMAIN P \cup DOMAIN W ELSE {}
        IN  /\ (out = PyNone) <=> (derived = {})
            /\ out # PyNone =>
                 /\ out.t = "dict"
                 /\ DOMAIN out.d = SummaryKeys
                 /\ \A k \in SummaryKeys :
                        out.d[k] = IF k \in DOMAIN T THEN T[k]
                                   ELSE IF k \in DOMAIN P THEN P[k]
                                   ELSE IF k \in DOMAIN W THEN W[k]
                                   ELSE Defaults[k]

\* C10 witness: the temperature reduction fails, precipitation and wind are
\* derived all the same, and the temperature fields carry their default
C10_Witness ==
    /\ dpc = "done"
    /\ grid.t2 = BadVar /\ grid.pr = Var(<<200, 0>>) /\ grid.wspd = Var(<<3, 6>>)
    /\ out # PyNone
    /\ out.d["temp_min"] = PyNone /\ out.d["temp_max"] = PyNone
    /\ out.d["pop_max"] = PyInt(50) /\ out.d["rain_sum"] = PyFloat(200000)
    /\ out.d["wind_max"] = PyFloat(6)

\* the precipitation window was reduced: the decoder reached the reductions
\* and the selection of the precipitation variable did not raise
PrecipReduced(g) == ReachesReductions(g) /\ g.pr.found /\ g.pr.ok

\* the unit correction rain_sum receives, applied to one timestep: amounts
\* of a window whose raw sum is below 1.0 are metres and become millimetres
\* (thousandths of a millimetre here), other windows are millimetres already
AmountMm(arr, i) == IF SumSeq(arr) < UnitThreshold THEN arr[i] * 1000 ELSE arr[i]

\* the timesteps whose precipitation, in millimetres, exceeds 0.1 mm
WetStepsMm(arr) == {i \in 1..Len(arr) : AmountMm(arr, i) > PopThreshold}

\* p is the integer nearest to num / den (either neighbour on a tie)
IsNearest(p, num, den) ==
    LET diff == p * den - num
    IN  2 * (IF diff < 0 THEN -diff ELSE diff) <= den

\* C11 (as claimed): for every precipitation window that is reduced, pop_max
\* is the percentage of the window's timesteps whose precipitation exceeds
\* 0.1 mm, rounded to the nearest integer and so within 0..100, the
\* threshold being applied to the amount in millimetres, that is after the
\* same unit correction rain_sum receives (raw sum below 1.0: times 1000).
C11_PopOfMillimetres ==
    (dpc = "done" /\ PrecipReduced(grid)) =>
        LET arr  == grid.pr.arr
            size == IF Len(arr) > 1 THEN Len(arr) ELSE 1
        IN  /\ out # PyNone
            /\ out.d["pop_max"].t = "int"
            /\ out.d["pop_max"].n \in 0..100
            /\ IsNearest(out.d["pop_max"].n, 100 * Cardinality(WetStepsMm(arr)), size)

-----------------------------------------------------------------------------
(* Claims about fetch_knmi_48h_summary, checked under SpecKnmi.            *)

\* C3 (as claimed): fetch_knmi_48h_summary never raises to its caller,
\* whatever the provider answers at any step; it returns None instead.
C3_NeverRaises == ~knmi_raised

\* C4: when KNMI_API_KEY is absent or empty the function returns None and
\* no request at all is issued by the invocation.
C4_NoKeyNoRequest ==
    ~Truthy(GetSecret(secret)) =>
        /\ knmi_requests = <<>>
        /\ kpc \in {"start", "done"}
        /\ summary = PyNone
        /\ ~knmi_raised

\* C4 witness: the key is the empty string and the function has returned
C4_Witness ==
    /\ kpc = "done"
    /\ GetSecret(secret) = PyStr(<<>>)
    /\ knmi_requests = <<>>

\* how many times the request r has been issued
TimesSent(r) == Cardinality({i \in 1..Len(knmi_requests) : knmi_requests[i] = r})

\* C8 (as claimed): no request with the same endpoint and arguments is
\* sent twice within one invocation.
C8_NoRequestTwice ==
    \A i, j \in 1..Len(knmi_requests) :
        i < j => knmi_requests[i] # knmi_requests[j]

\* C8 (amended): the only request sent more than once is the run listing
\* of the committed dataset and version, which is sent exactly twice (by
\* the candidate scan and again by line 315); the file listing, the URL
\* resolution and the download are each sent at most once, and no request
\* is sent three times.
C8_OnlyRunListingTwice ==
    /\ \A i \in 1..Len(knmi_requests) :
          LET r == knmi_requests[i]
          IN  /\ TimesSent(r) <= 2
              /\ TimesSent(r) = 2 =>
                    r = Request("instances", dataset, version, PyNone, PyNone, PyNone)
    /\ \A ep \in {"files", "url", "download"} :
          Cardinality({i \in 1..Len(knmi_requests) : knmi_requests[i].ep = ep}) <= 1
    /\ kpc \in {"files", "url", "download", "parse"} =>
          TimesSent(Request("instances", dataset, version, PyNone, PyNone, PyNone)) = 2

\* C8 witness: a complete resolution: the run listing was sent twice, the
\* other three requests once each
C8_Witness ==
    /\ kpc = "done"
    /\ summary # PyNone
    /\ Len(knmi_requests) = 5
    /\ knmi_requests[1] = knmi_requests[2]

\* the requests of the invocation that name a dataset
C9_State ==
    LET n == Len(knmi_requests)
        c == DATASET_CANDIDATES
    IN  \* the scan queries the candidates in order, one request each
        /\ \A i \in 1..n :
              i <= cand =>
                  knmi_requests[i] =
                      Request("instances", c[i].dataset, c[i].version, PyNone, PyNone, PyNone)
        \* whatever is requested after the scan is for the committed candidate
        /\ \A i \in 1..n :
              i > cand =>
                  /\ dataset = c[cand].dataset /\ version = c[cand].version
                  /\ knmi_requests[i].ep # "download" =>
                        /\ knmi_requests[i].dataset = dataset
                        /\ knmi_requests[i].version = version
                  /\ knmi_requests[i].ep \in {"files", "url"} =>
                        knmi_requests[i].instance = instance_id
        \* the candidate is committed on a non-empty run listing
        /\ kpc = "relist" => Truthy(instances) /\ dataset = c[cand].dataset
        \* the run used is the last one of the listing fetched again
        /\ kpc \in {"files", "url", "download", "parse"} =>
              /\ knmi_requests[cand + 1] =
                     Request("instances", dataset, version, PyNone, PyNone, PyNone)
              /\ instance_id = InstanceIdOf(instances.l[Len(instances.l)])

\* C9: the resolver scans DATASET_CANDIDATES in order and commits to the
\* first candidate whose run listing is not empty (a candidate is passed
\* over only on an empty listing); after that no other candidate is
\* queried, whatever fails later; the run used is the last element of the
\* run listing fetched again for the committed dataset and version.
C9_FirstSuccessWins ==
    [][ /\ C9_State'
        /\ (kpc = "scan" /\ kpc' # "relist") => ~Truthy(instances')
        /\ (kpc # "scan" /\ kpc # "start") => cand' = cand /\ dataset' = dataset
                                                /\ version' = version ]_vars

\* C9 witness: the first candidate was committed, the download or the
\* decoding failed, and the function returned None with the second
\* candidate never queried
C9_Witness ==
    /\ kpc = "done"
    /\ cand = 1 /\ cand < Len(DATASET_CANDIDATES)
    /\ summary = PyNone
    /\ Len(knmi_requests) = 5
    /\ \A i \in 1..Len(knmi_requests) :
          knmi_requests[i].version # DATASET_CANDIDATES[2].version

-----------------------------------------------------------------------------
(* Claims about the page building ai_context, checked under Spec.          *)

ContextKeys ==
    {"store", "yesterday", "day_before", "peer_median", "weather", "cci", "news", "holiday"}

\* C1 (as claimed): the weather signal is obtained by trying the gridded
\* pipeline (fetch_knmi_48h_summary) first; the generic provider
\* (fetch_weather) is called only after a call of the gridded pipeline.
C1_GriddedFirst ==
    \A i \in 1..Len(calls) :
        calls[i] = "fetch_weather" =>
            \E j \in 1..(i - 1) : calls[j] = "fetch_knmi_48h_summary"

\* C2: whatever combination of sources is unconfigured, unreachable or
\* answers with a malformed payload, no exception reaches the page, the
\* page goes on to build ai_context, which has exactly the eight keys, and
\* a failed source leaves its empty value there: weather None, cci None,
\* news [], holiday None.
C2_AlwaysCompletes ==
    /\ ~raised
    /\ pc \in {"weather", "cci", "news", "holidays", "context", "done"}
    /\ pc # "done" => ENABLED Next
    /\ pc = "done" =>
          /\ ai_context.t = "dict"
          /\ DOMAIN ai_context.d = ContextKeys
          /\ "weather" \in failed => ai_context.d["weather"] = PyNone
          /\ "cci" \in failed     => ai_context.d["cci"] = PyNone
          /\ "news" \in failed    => ai_context.d["news"] = PyList(<<>>)
          /\ "holiday" \in failed => ai_context.d["holiday"] = PyNone

\* C2 witness: every endpoint is configured, every source fails, and the
\* context is built all the same
C2_Witness ==
    /\ pc = "done"
    /\ \A k \in DOMAIN cfg : Truthy(cfg[k])
    /\ failed = {"weather", "cci", "news", "holiday"}
    /\ Len(requests) >= 4
    /\ ai_context.d["weather"] = PyNone

\* C6 (as claimed): a weather summary in ai_context that is not None has
\* all six keys, and its pop_max is an int between 0 and 100.
C6_FullyKeyed ==
    pc = "done" =>
        LET w == ai_context.d["weather"]
        IN  w # PyNone =>
               /\ DOMAIN w.d = SummaryKeys
               /\ w.d["pop_max"].t = "int"
               /\ w.d["pop_max"].n \in 0..100

\* the value and the request a signal has when its endpoint is unconfigured
C7_State ==
    /\ (pc \in {"news", "holidays", "context", "done"} /\ ~Truthy(cfg.CBS_CONFIDENCE_URL)) =>
           cci = PyNone /\ \A i \in 1..Len(requests) : requests[i] # "cbs"
    /\ (pc \in {"holidays", "context", "done"} /\ ~Truthy(cfg.ECON_NEWS_RSS)) =>
           news = PyList(<<>>) /\ \A i \in 1..Len(requests) : requests[i] # "rss"
    /\ (pc \in {"context", "done"} /\ ~Truthy(cfg.HOLIDAYS_NL_ICS)) =>
           hol = PyNone /\ \A i \in 1..Len(requests) : requests[i] # "ics"

\* the values a lookup can yield, as a function of its own configuration
WeatherOutcomes ==
    [key \in Configured("owm-key"), pc4 \in Configured("3811") |->
        {FetchWeather(key, pc4, g, fc).val : g \in GeoResponses, fc \in FcResponses}]
CciOutcomes ==
    [e \in Configured("https://cbs") |->
        {FetchCbsConfidence(e, r).val : r \in CbsResponses}]
NewsOutcomes ==
    [e \in Configured("https://rss") |->
        {FetchEconNews(e, r).val : r \in NewsResponses}]
HolOutcomes ==
    [e \in Configured("https://ics") |->
        {Get(FetchHolidays(e, r).val, TodayIso, PyNone) : r \in IcsResponses}]

\* C7: an unconfigured confidence, news or holiday endpoint yields the
\* empty value (None, [], no holiday) and no request to it; each lookup
\* sets its own signal only, leaving the signals already obtained as they
\* are, and the value it can yield depends on its own configuration alone,
\* not on whether another lookup was configured, failed or succeeded.
C7_IndependentSignals ==
    [][ /\ C7_State'
        /\ pc = "weather"  => weather' \in WeatherOutcomes[cfg.OPENWEATHER_API_KEY, cfg.store_pc]
                              /\ UNCHANGED <<cci, news, hol>>
        /\ pc = "cci"      => cci' \in CciOutcomes[cfg.CBS_CONFIDENCE_URL]
                              /\ UNCHANGED <<weather, news, hol>>
        /\ pc = "news"     => news' \in NewsOutcomes[cfg.ECON_NEWS_RSS]
                              /\ UNCHANGED <<weather, cci, hol>>
        /\ pc = "holidays" => hol' \in HolOutcomes[cfg.HOLIDAYS_NL_ICS]
                              /\ UNCHANGED <<weather, cci, news>>
        /\ pc = "context"  => /\ ai_context'.d["weather"] = weather
                              /\ ai_context'.d["cci"] = cci
                              /\ ai_context'.d["news"] = news
                              /\ ai_context'.d["holiday"] = hol ]_vars

\* C7 witness: the confidence endpoint is unconfigured, the other three
\* signals are obtained all the same
C7_Witness ==
    /\ pc = "done"
    /\ ~Truthy(cfg.CBS_CONFIDENCE_URL)
    /\ cci = PyNone
    /\ weather # PyNone /\ news # PyList(<<>>) /\ hol # PyNone
    /\ requests = <<"geo", "forecast", "rss", "ics">>

-----------------------------------------------------------------------------
(* Claims about fetch_holidays, checked under SpecHolidays.                *)

\* the positions of the END:VEVENT lines: one per event of the document
EventEnds(lines) == {i \in 1..Len(lines) : lines[i].k = "END"}

\* the lines of the event that ends at position e: those after the
\* preceding END:VEVENT, up to e
EventSpan(lines, e) ==
    {i \in 1..e : \A j \in EventEnds(lines) : j < e => j < i}

\* the event ending at e carries a DTSTART of date d / a SUMMARY of label l
EventHasDate(lines, e, d) ==
    \E i \in EventSpan(lines, e) : lines[i].k = "DTSTART" /\ IsoDate(lines[i].v) = d

EventHasLabel(lines, e, l) ==
    \E i \in EventSpan(lines, e) : lines[i].k = "SUMMARY" /\ PyStr(lines[i].v) = l

EventHasSummary(lines, e) ==
    \E i \in EventSpan(lines, e) : lines[i].k = "SUMMARY"

\* C12 (as claimed): for every sequence of calendar lines, each entry
\* date -> label of the map fetch_holidays returns pairs a DTSTART date with
\* a SUMMARY text of the same event (nothing is carried over from an event
\* that ended without a DTSTART), and every event that has both a DTSTART
\* and a SUMMARY has its date in the map, whatever a later event lacks.
C12_EventPairing ==
    hpc = "done" =>
        /\ holidays.t = "dict"
        /\ \A d \in DOMAIN holidays.d :
               \E e \in EventEnds(ics_lines) :
                   /\ EventHasDate(ics_lines, e, d)
                   /\ EventHasLabel(ics_lines, e, holidays.d[d])
        /\ \A e \in EventEnds(ics_lines) :
               EventHasSummary(ics_lines, e) =>
                   \A i \in EventSpan(ics_lines, e) :
                       ics_lines[i].k = "DTSTART" =>
                           \E j \in EventSpan(ics_lines, e) :
                               /\ ics_lines[j].k = "DTSTART"
                               /\ IsoDate(ics_lines[j].v) \in DOMAIN holidays.d

====
